---- MODULE Spec2Model ----
(***************************************************************************)
(* Model of the puppet (receiver) control loop of                          *)
(* Endocode/receivercode.py: the heartbeat watchdog, the emergency-stop /  *)
(* unlock state machine and the servo commands of the main loop; and of    *)
(* the controller (transmitter) loop of Endocode/controllercode.py: the    *)
(* emergency gesture, the unlock combo, the data frame and the heartbeat.  *)
(*                                                                         *)
(* One step of the model is one iteration of a `while True` loop.  For the *)
(* puppet: the e.recv() call (which blocks for some time and returns a     *)
(* datagram, or nothing, or raises), followed by everything the iteration  *)
(* does with the result, including the blocking animation calls and the    *)
(* sleeps.  For the controller: the button and joystick reads, every       *)
(* send_message call of the iteration, and the sleep that ends it.         *)
(*                                                                         *)
(* Specifications:  Spec      the puppet loop;                             *)
(*                  SpecAnim  the puppet loop with datagrams that arrive   *)
(*                            while a handler is asleep in an animation;   *)
(*                  SpecClamp set_servo_angle applied to drawn inputs;     *)
(*                  SpecCtl   the controller loop;                         *)
(*                  SpecJoy   read_joy applied to every raw axis value;    *)
(*                  SpecToggle the controller loop, button 2 worked alone; *)
(*                  SpecBoot  the puppet's start-up code (init_pca9685);   *)
(*                  SpecJt    the loop of tests/joysticktransmit.py;       *)
(*                  SpecLoss  controller and puppet over a link that loses *)
(*                            datagrams;                                   *)
(*                  SpecDup   controller and puppet over a link that       *)
(*                            delivers a datagram twice;                   *)
(*                  SpecRecover controller and puppet through a link       *)
(*                            outage that locks the puppet only;           *)
(*                  SpecFault the puppet loop with datagrams that decode   *)
(*                            but cannot be applied.                       *)
(***************************************************************************)
EXTENDS Integers, FiniteSets, Sequences, TLC

\* ------------------------------------------------------------------------
\* Program constants
\* ------------------------------------------------------------------------
EYE_H == 0
EYE_V == 1
EYE_BLINK == 2
NECK_LR == 3
NECK_UD == 4
JAW == 5
TORSO == 6
WAVE1 == 7
WAVE2 == 8
WAVE3 == 9
NumChannels == 10
NEUTRAL == 90
HEARTBEAT_TIMEOUT == 4000
IDLE_SLEEP_MS == 10
BLINK_MS == 150
WAVE_STEP_MS == 200
WAVE_CYCLES == 3
OSERROR_SLEEP_MS == 100
EXCEPTION_SLEEP_MS == 1000
JAW_OPEN_ANGLE == 30

\* ------------------------------------------------------------------------
\* Bounds of the model
\* ------------------------------------------------------------------------
\* The longest time one e.recv() call blocks before it returns (with a
\* datagram, or with nothing when it times out).
RecvTimeout == 2500
\* Angle values datagrams carry: inside [0,180], above it, below it.
AngleInRange == 45
AngleAbove == 200
AngleBelow == 0 - 20

Channels == 0 .. (NumChannels - 1)
\* How long e.recv() blocks before it hands back a datagram.
RecvWaits == {0, RecvTimeout}

\* ------------------------------------------------------------------------
\* State
\* ------------------------------------------------------------------------
VARIABLES
    servo,            \* channel -> [angle, duty]: what set_servo_angle last wrote
    emergency_stop,   \* the Locked flag
    wave_active,
    jaw_open,
    since_heartbeat,  \* ticks_diff(ticks_ms(), last_heartbeat), saturated above the timeout
    e_bound,          \* the global name `e` still refers to the ESP-NOW handle
    rx,               \* history: what the last iteration's e.recv() produced
    since_datagram,   \* history: time since the last decoded datagram was received
    since_hb_frame,   \* history: time since boot or the last frame with heartbeat set
    gap_open,         \* history: >4000 ms passed without a decoded datagram, no unlock since
    rxbuf,            \* datagrams ESP-NOW buffered while the loop was not in e.recv()
    was_waving,       \* history: wave_active before the last iteration
    probe             \* the input drawn for set_servo_angle (SpecClamp)

\* The controller (Endocode/controllercode.py)
VARIABLES
    unlocked,             \* the controller's own lock flag (True = not locked)
    unlock_combo,         \* ticks_diff(now, t) for each timestamp t in the list
    heartbeat_elapsed,    \* ticks_diff(now, heartbeat_timer) at the top of the loop
    last_blink_state,
    last_joy2_btn_state,
    joy2_press_elapsed,   \* ticks_diff(now, joy2_btn_press_time) at the top of the loop
    ctl_wave_active,      \* the controller's wave_active
    ctl_jaw_open,         \* the controller's jaw_open
    state_json,           \* what load_state would read from state.json
    sent,                 \* history: the send_message calls of the last iteration
    tick                  \* history: what the last iteration read and which branch it ran

\* Functions and programs exercised on their own
VARIABLES
    joy_probe             \* the raw axis value drawn for read_joy and what it returned (SpecJoy)

\* The puppet before its main loop (receivercode.py lines 154-167)
VARIABLES
    boot_pc,              \* where the start-up code is: an I2C step of init_pca9685,
                          \* the 5 s sleep of the retry loop, or past it ("loop")
    pca_mode1,            \* the last value written to the MODE1 register
    pca_prescale,         \* the last value written to the PRESCALE register
    init_attempts,        \* history: calls of init_pca9685 so far, saturated
    init_error            \* history: how the last I2C transfer ended

\* The gesture test transmitter (tests/joysticktransmit.py)
VARIABLES
    emergency_sent,
    unlock_sent,
    joy1_btn_history,     \* ticks_diff(current_time, t) for the newest timestamps t in the list
    last_joy1_btn,        \* TRUE = pressed (the pin reads 0)
    joy1_btn_elapsed,     \* current_time - joy1_btn_last_time, saturated above the debounce time
    jt_heartbeat_elapsed, \* ticks_diff(current_time, last_heartbeat) at the top of the loop
    edges_after_stop,     \* history: press edges recorded in iterations after the one that
                          \* sent emergency_stop, saturated
    jt_sent,              \* history: the send_message calls of the last iteration
    jt_tick               \* history: what the last iteration read

\* The radio link between the controller and the puppet
VARIABLES
    idle,                 \* how long the puppet will have been blocked in e.recv(), without
                          \* a datagram, when the controller's current iteration ends
    stale,                \* a second copy of an unlock datagram is still under way
    latest_safety         \* history: the last safety message the controller sent

puppet_vars ==
    <<servo, emergency_stop, wave_active, jaw_open, since_heartbeat,
      e_bound, rx, since_datagram, since_hb_frame, gap_open, rxbuf, was_waving>>
ctl_vars ==
    <<unlocked, unlock_combo, heartbeat_elapsed, last_blink_state,
      last_joy2_btn_state, joy2_press_elapsed, ctl_wave_active, ctl_jaw_open,
      state_json, sent, tick>>
boot_vars == <<boot_pc, pca_mode1, pca_prescale, init_attempts, init_error>>
jt_vars ==
    <<emergency_sent, unlock_sent, joy1_btn_history, last_joy1_btn,
      joy1_btn_elapsed, jt_heartbeat_elapsed, edges_after_stop, jt_sent, jt_tick>>
bench_vars == <<joy_probe, boot_vars, jt_vars>>
link_vars == <<idle, stale, latest_safety>>
vars == <<puppet_vars, ctl_vars, probe, bench_vars, link_vars>>

\* ------------------------------------------------------------------------
\* Time: only the comparison with the timeout is ever made, so elapsed
\* times above it are all represented by HEARTBEAT_TIMEOUT + 1.
\* ------------------------------------------------------------------------
Sat(t) ==
    IF t > HEARTBEAT_TIMEOUT THEN HEARTBEAT_TIMEOUT + 1 ELSE t

\* ------------------------------------------------------------------------
\* Servo driver
\* ------------------------------------------------------------------------
Max2(a, b) == IF a > b THEN a ELSE b
Min2(a, b) == IF a < b THEN a ELSE b

\* Faulty variant: no clamp, as set_servo_angle of backup/receiver.py
ClampAngle_NoClamp(angle) ==
    angle

\* set_servo_angle, lines 41-43: the clamp
ClampAngle(angle) ==
    IF angle < 0 \/ angle > 180 THEN Max2(0, Min2(180, angle)) ELSE angle

\* set_servo_angle, lines 46-48: angle -> pulse width in us -> 12-bit duty
ServoDuty(angle) ==
    ((500 + (angle * 2000) \div 180) * 4096) \div 20000

\* set_servo_angle(channel, angle) applied to the driver state sv
set_servo_angle(sv, channel, angle) ==
    [sv EXCEPT ![channel] =
        [angle |-> ClampAngle(angle), duty |-> ServoDuty(ClampAngle(angle))]]

\* Faulty variant: stop_all_servos with the loop starting at channel 1
stop_all_servos_SkipsFirst(sv) ==
    [ch \in Channels |->
        IF ch = 0 THEN sv[ch] ELSE set_servo_angle(sv, ch, NEUTRAL)[ch]]

\* stop_all_servos(): every channel to 90
stop_all_servos(sv) ==
    [ch \in Channels |-> set_servo_angle(sv, ch, NEUTRAL)[ch]]

\* perform_blink(): channel 2 to 0, sleep 150 ms, channel 2 to 90
perform_blink(sv) ==
    set_servo_angle(set_servo_angle(sv, EYE_BLINK, 0), EYE_BLINK, NEUTRAL)

\* perform_wave_sequence(): three A/B cycles, then the three wave channels to 90
WavePoseA(sv) ==
    set_servo_angle(set_servo_angle(set_servo_angle(sv, WAVE1, 60), WAVE2, 120), WAVE3, 90)
WavePoseB(sv) ==
    set_servo_angle(set_servo_angle(set_servo_angle(sv, WAVE1, 120), WAVE2, 60), WAVE3, 90)
WaveNeutral(sv) ==
    set_servo_angle(set_servo_angle(set_servo_angle(sv, WAVE1, 90), WAVE2, 90), WAVE3, 90)
RECURSIVE WaveCycles(_, _)
WaveCycles(sv, n) ==
    IF n = 0 THEN sv ELSE WaveCycles(WavePoseB(WavePoseA(sv)), n - 1)
\* Faulty variant: the sequence ends in pose B, without the return to 90
perform_wave_sequence_NoTeardown(sv) ==
    WaveCycles(sv, WAVE_CYCLES)
perform_wave_sequence(sv) ==
    WaveNeutral(WaveCycles(sv, WAVE_CYCLES))
WaveDuration == 2 * WAVE_CYCLES * WAVE_STEP_MS

\* ------------------------------------------------------------------------
\* Frames: a decoded JSON object is a function from the field names present
\* to their values.
\* ------------------------------------------------------------------------
EmptyFrame == <<>>
Has(f, k) == k \in DOMAIN f
\* controls.get(k): truthiness of the value, None when absent
Truthy(f, k) == Has(f, k) /\ f[k] = TRUE

PosFields == {"eye_h", "eye_v", "neck_lr", "neck_ud", "torso_rot"}
AnimFields == {"eye_blink", "wave_active", "jaw_open"}
CtlFields == {"heartbeat", "emergency_stop", "unlock"}

\* The datagrams the model delivers.  FrameA and FrameB are partial data
\* frames, FullData is the frame the controller builds (all eight fields).
FrameA == [k \in {"eye_h"} |-> AngleAbove]
FrameB ==
    [k \in {"eye_v", "neck_lr", "neck_ud", "torso_rot"} |->
        CASE k = "eye_v" -> AngleInRange
          [] k = "neck_lr" -> AngleAbove
          [] k = "neck_ud" -> AngleBelow
          [] OTHER -> AngleInRange]
FullData(b) == FrameA @@ FrameB @@ [k \in AnimFields |-> b]
DataFrames ==
    { EmptyFrame, FrameA, FrameB,
      [k \in {"eye_blink"} |-> TRUE],
      [k \in {"wave_active"} |-> TRUE],
      [k \in {"jaw_open"} |-> TRUE],
      FullData(TRUE), FullData(FALSE),
      [k \in CtlFields |-> FALSE] @@ FrameA }
CtlParts ==
    { [k \in S |-> TRUE] : S \in (SUBSET CtlFields) \ {{}} }
CtlFrames ==
    CtlParts \cup { c @@ FullData(TRUE) : c \in CtlParts }
Frames == DataFrames \cup CtlFrames

\* ------------------------------------------------------------------------
\* The main loop's handling of a decoded frame (lines 207-256)
\* ------------------------------------------------------------------------
\* Faulty variant: an absent field commands 90, as controls.get(field, 90) would
ApplyField_DefaultNeutral(sv, f, k, ch) ==
    set_servo_angle(sv, ch, IF Has(f, k) THEN f[k] ELSE NEUTRAL)

\* lines 231-241: the five position fields
ApplyField(sv, f, k, ch) ==
    IF Has(f, k) THEN set_servo_angle(sv, ch, f[k]) ELSE sv
ApplyPositions(sv, f) ==
    ApplyField(ApplyField(ApplyField(ApplyField(ApplyField(sv,
        f, "eye_h", EYE_H), f, "eye_v", EYE_V), f, "neck_lr", NECK_LR),
        f, "neck_ud", NECK_UD), f, "torso_rot", TORSO)

\* lines 243-245
ApplyBlink(sv, f) ==
    IF Truthy(f, "eye_blink") THEN perform_blink(sv) ELSE sv
\* lines 247-251
ApplyWave(sv, f) ==
    IF Has(f, "wave_active") /\ f["wave_active"] THEN perform_wave_sequence(sv) ELSE sv
\* lines 253-256
ApplyJaw(sv, f) ==
    IF Has(f, "jaw_open")
    THEN set_servo_angle(sv, JAW, IF f["jaw_open"] THEN JAW_OPEN_ANGLE ELSE NEUTRAL)
    ELSE sv

\* lines 231-256 as a whole
ApplyData(sv, f) ==
    ApplyJaw(ApplyWave(ApplyBlink(ApplyPositions(sv, f), f), f), f)

\* The class of a decoded frame by the documented priority
\* heartbeat > emergency_stop > unlock > position/animation
FrameClass(f) ==
    IF Truthy(f, "heartbeat") THEN "heartbeat"
    ELSE IF Truthy(f, "emergency_stop") THEN "emergency_stop"
    ELSE IF Truthy(f, "unlock") THEN "unlock"
    ELSE "data"

\* time the handler of a data frame spends in time.sleep
DataDuration(f) ==
    (IF Truthy(f, "eye_blink") THEN BLINK_MS ELSE 0)
    + (IF Has(f, "wave_active") /\ f["wave_active"] THEN WaveDuration ELSE 0)

\* Faulty variant: the dispatch without the `if emergency_stop: continue` of line 228
Dispatch_NoLockCheck(f, locked) ==
    IF Truthy(f, "heartbeat") THEN "heartbeat"
    ELSE IF Truthy(f, "emergency_stop") THEN "emergency_stop"
    ELSE IF Truthy(f, "unlock") THEN "unlock"
    ELSE "data"

\* Faulty variant: the dispatch with unlock tested before emergency_stop
Dispatch_UnlockFirst(f, locked) ==
    IF Truthy(f, "heartbeat") THEN "heartbeat"
    ELSE IF Truthy(f, "unlock") THEN "unlock"
    ELSE IF Truthy(f, "emergency_stop") THEN "emergency_stop"
    ELSE IF locked THEN "skip"
    ELSE "data"

\* The branch of the dispatch (lines 208, 215, 222, 228) a frame takes
Dispatch(f, locked) ==
    IF Truthy(f, "heartbeat") THEN "heartbeat"
    ELSE IF Truthy(f, "emergency_stop") THEN "emergency_stop"
    ELSE IF Truthy(f, "unlock") THEN "unlock"
    ELSE IF locked THEN "skip"
    ELSE "data"

\* Faulty variant: a heartbeat clears the lock
LockAfter_HeartbeatUnlocks(branch, locked) ==
    CASE branch = "emergency_stop" -> TRUE
      [] branch \in {"unlock", "heartbeat"} -> FALSE
      [] OTHER -> locked

\* lines 217 and 224: emergency_stop after the branch has run
LockAfter(branch, locked) ==
    CASE branch = "emergency_stop" -> TRUE
      [] branch = "unlock" -> FALSE
      [] OTHER -> locked

\* Faulty variant: the heartbeat branch forgets to store the time
HeartbeatTimer_NeverRefreshed(branch, t) ==
    Sat(t)

\* lines 208-209: last_heartbeat = ticks_ms() in the heartbeat branch only;
\* t is the elapsed time the timer shows otherwise
HeartbeatTimer(branch, t) ==
    IF branch = "heartbeat" THEN 0 ELSE Sat(t)

\* line 192: the watchdog comparison
WatchdogExpired(elapsed) ==
    elapsed > HEARTBEAT_TIMEOUT

\* Faulty variant: the puppet boots with emergency_stop = True
InitialEmergencyStop_Locked ==
    TRUE

\* line 177: emergency_stop = False
InitialEmergencyStop ==
    FALSE

\* ------------------------------------------------------------------------
\* History bookkeeping shared by the actions
\* ------------------------------------------------------------------------
\* rx.kind: "boot" (no iteration yet), "none" (recv timed out), "garbage"
\* (payload is not JSON), "frame" (decoded to rx.frame), "oserror",
\* "nameerror", "typeerror" (decoded to rx.frame, a value of which is not a
\* number), "attributeerror" (decoded, not to an object); rx.first: this
\* was the first iteration after boot
Rx(kind, f) == [kind |-> kind, frame |-> f, first |-> (rx.kind = "boot")]

\* a gap of more than 4000 ms without a decoded datagram has been completed
\* by the time e.recv() returns after blocking d ms
GapNow(d) == since_datagram + d > HEARTBEAT_TIMEOUT

\* the rest of the model does not move while the puppet runs an iteration
PuppetOnly ==
    /\ was_waving' = wave_active
    /\ UNCHANGED ctl_vars
    /\ UNCHANGED <<probe, bench_vars>>

PuppetInit ==
    /\ servo = stop_all_servos([ch \in Channels |-> [angle |-> 0, duty |-> 0]])
    /\ emergency_stop = InitialEmergencyStop
    /\ wave_active = FALSE
    /\ jaw_open = FALSE
    /\ since_heartbeat = 0
    /\ e_bound = TRUE
    /\ rx = [kind |-> "boot", frame |-> EmptyFrame, first |-> FALSE]
    /\ since_datagram = 0
    /\ since_hb_frame = 0
    /\ gap_open = FALSE
    /\ rxbuf = << >>
    /\ was_waving = FALSE

\* ------------------------------------------------------------------------
\* Loop iterations
\* ------------------------------------------------------------------------
\* lines 189-198: e.recv() times out and returns no message
RecvNothingStep ==
    /\ e_bound
    /\ rxbuf = << >>
    /\ LET fire == WatchdogExpired(since_heartbeat + RecvTimeout) /\ ~emergency_stop
       IN /\ servo' = IF fire THEN stop_all_servos(servo) ELSE servo
          /\ emergency_stop' = (emergency_stop \/ fire)
    /\ since_heartbeat' = Sat(since_heartbeat + RecvTimeout + IDLE_SLEEP_MS)
    /\ since_datagram' = Sat(since_datagram + RecvTimeout + IDLE_SLEEP_MS)
    /\ since_hb_frame' = Sat(since_hb_frame + RecvTimeout + IDLE_SLEEP_MS)
    /\ gap_open' = (gap_open \/ GapNow(RecvTimeout))
    /\ rx' = Rx("none", EmptyFrame)
    /\ UNCHANGED <<wave_active, jaw_open, e_bound, rxbuf>>
    /\ PuppetOnly

RecvNothing ==
    /\ RecvNothingStep
    /\ UNCHANGED link_vars

\* lines 200-205: ujson.loads raises ValueError; `except ValueError as e`
\* rebinds the global e and unbinds it when the clause is left
RecvGarbage(d) ==
    /\ e_bound
    /\ rxbuf = << >>
    /\ e_bound' = FALSE
    /\ since_heartbeat' = Sat(since_heartbeat + d)
    /\ since_datagram' = Sat(since_datagram + d)
    /\ since_hb_frame' = Sat(since_hb_frame + d)
    /\ gap_open' = (gap_open \/ GapNow(d))
    /\ rx' = Rx("garbage", EmptyFrame)
    /\ UNCHANGED <<servo, emergency_stop, wave_active, jaw_open, rxbuf>>
    /\ PuppetOnly
    /\ UNCHANGED link_vars

\* lines 207-256: what the iteration does with a datagram that decodes to
\* the JSON object f, handed over by e.recv() after d ms
HandleFrame(d, f) ==
    /\ e_bound
    /\ LET branch == Dispatch(f, emergency_stop)
           dur == IF branch = "data" THEN DataDuration(f) ELSE 0
       IN /\ servo' = CASE branch = "emergency_stop" -> stop_all_servos(servo)
                        [] branch = "data" -> ApplyData(servo, f)
                        [] OTHER -> servo
          /\ emergency_stop' = LockAfter(branch, emergency_stop)
          /\ wave_active' = IF branch = "data" /\ Has(f, "wave_active")
                            THEN f["wave_active"] ELSE wave_active
          /\ jaw_open' = IF branch = "data" /\ Has(f, "jaw_open")
                         THEN f["jaw_open"] ELSE jaw_open
          /\ since_heartbeat' = HeartbeatTimer(branch, since_heartbeat + d + dur)
          /\ since_datagram' = dur
          /\ since_hb_frame' = IF Truthy(f, "heartbeat") THEN 0
                               ELSE Sat(since_hb_frame + d + dur)
          /\ gap_open' = IF Truthy(f, "unlock") /\ ~Truthy(f, "heartbeat")
                              /\ ~Truthy(f, "emergency_stop")
                         THEN FALSE
                         ELSE (gap_open \/ GapNow(d))
    /\ rx' = Rx("frame", f)
    /\ UNCHANGED e_bound
    /\ PuppetOnly

\* the handler of f sleeps in an animation (perform_blink, perform_wave_sequence)
Animates(f) ==
    Dispatch(f, emergency_stop) = "data" /\ DataDuration(f) > 0

\* lines 189, 207-256: e.recv() blocks d ms and returns a datagram that
\* decodes to f; nothing else arrives before the loop is back in e.recv()
RecvFrame(d, f) ==
    /\ rxbuf = << >>
    /\ HandleFrame(d, f)
    /\ rxbuf' = << >>
    /\ UNCHANGED link_vars

\* as RecvFrame, for a frame whose handler sleeps in an animation: the
\* datagram g arrives during that sleep and ESP-NOW buffers it
RecvDuringAnimation(d, f, g) ==
    /\ rxbuf = << >>
    /\ Animates(f)
    /\ HandleFrame(d, f)
    /\ rxbuf' = <<g>>
    /\ UNCHANGED link_vars

\* e.recv() returns the buffered datagram at once
RecvBuffered ==
    /\ rxbuf # << >>
    /\ HandleFrame(0, Head(rxbuf))
    /\ rxbuf' = Tail(rxbuf)
    /\ UNCHANGED link_vars

\* lines 258-261: e.recv() raises OSError; `except OSError as e` unbinds e
RecvOSError ==
    /\ e_bound
    /\ rxbuf = << >>
    /\ e_bound' = FALSE
    /\ since_heartbeat' = Sat(since_heartbeat + OSERROR_SLEEP_MS)
    /\ since_datagram' = Sat(since_datagram + OSERROR_SLEEP_MS)
    /\ since_hb_frame' = Sat(since_hb_frame + OSERROR_SLEEP_MS)
    /\ gap_open' = (gap_open \/ GapNow(OSERROR_SLEEP_MS))
    /\ rx' = Rx("oserror", EmptyFrame)
    /\ UNCHANGED <<servo, emergency_stop, wave_active, jaw_open, rxbuf>>
    /\ PuppetOnly
    /\ UNCHANGED link_vars

\* lines 189, 262-266: with e unbound, e.recv() raises NameError, caught by
\* `except Exception as e`
RecvNameError ==
    /\ ~e_bound
    /\ rxbuf = << >>
    /\ servo' = stop_all_servos(servo)
    /\ emergency_stop' = TRUE
    /\ since_heartbeat' = Sat(since_heartbeat + EXCEPTION_SLEEP_MS)
    /\ since_datagram' = Sat(since_datagram + EXCEPTION_SLEEP_MS)
    /\ since_hb_frame' = Sat(since_hb_frame + EXCEPTION_SLEEP_MS)
    /\ gap_open' = (gap_open \/ GapNow(EXCEPTION_SLEEP_MS))
    /\ rx' = Rx("nameerror", EmptyFrame)
    /\ UNCHANGED <<wave_active, jaw_open, e_bound, rxbuf>>
    /\ PuppetOnly
    /\ UNCHANGED link_vars

\* the position fields in the order lines 232-241 read them
PosOrder == << "eye_h", "eye_v", "neck_lr", "neck_ud", "torso_rot" >>
FieldsBefore(bad) ==
    { PosOrder[i] : i \in { j \in 1 .. Len(PosOrder) :
                              \E n \in (j + 1) .. Len(PosOrder) : PosOrder[n] = bad } }
\* lines 231-241 when the value of the field `bad` is not a number (a string,
\* null): the fields read before it are applied, then set_servo_angle raises
\* TypeError at `angle < 0` (line 41) and the rest of the handler is skipped
ApplyUntil(sv, f, bad) ==
    ApplyPositions(sv, [k \in (DOMAIN f) \cap FieldsBefore(bad) |-> f[k]])

\* lines 189, 207-241 and 262-266: a datagram that decodes to the object f
\* whose field `bad` holds a value that is not a number.  The value is read
\* only in the data branch; the TypeError is caught by `except Exception as
\* e`, which stops the servos, locks, sleeps 1 s and unbinds e
RecvBadValue(d, f, bad) ==
    /\ e_bound
    /\ rxbuf = << >>
    /\ bad \in (DOMAIN f) \cap PosFields
    /\ Dispatch(f, emergency_stop) = "data"
    /\ servo' = stop_all_servos(ApplyUntil(servo, f, bad))
    /\ emergency_stop' = TRUE
    /\ e_bound' = FALSE
    /\ since_heartbeat' = Sat(since_heartbeat + d + EXCEPTION_SLEEP_MS)
    /\ since_datagram' = EXCEPTION_SLEEP_MS
    /\ since_hb_frame' = Sat(since_hb_frame + d + EXCEPTION_SLEEP_MS)
    /\ gap_open' = (gap_open \/ GapNow(d))
    /\ rx' = Rx("typeerror", f)
    /\ UNCHANGED <<wave_active, jaw_open, rxbuf>>
    /\ PuppetOnly
    /\ UNCHANGED link_vars

\* faulty variant: an exception handler that locks without stop_all_servos()
RecvNonObject_NoStop(d) ==
    /\ e_bound
    /\ rxbuf = << >>
    /\ emergency_stop' = TRUE
    /\ e_bound' = FALSE
    /\ since_heartbeat' = Sat(since_heartbeat + d + EXCEPTION_SLEEP_MS)
    /\ since_datagram' = EXCEPTION_SLEEP_MS
    /\ since_hb_frame' = Sat(since_hb_frame + d + EXCEPTION_SLEEP_MS)
    /\ gap_open' = (gap_open \/ GapNow(d))
    /\ rx' = Rx("attributeerror", EmptyFrame)
    /\ UNCHANGED <<servo, wave_active, jaw_open, rxbuf>>
    /\ PuppetOnly
    /\ UNCHANGED link_vars

\* lines 189, 202, 208 and 262-266: a datagram that decodes to a JSON value
\* that is not an object (a list, a number, a string, null):
\* controls.get raises AttributeError, caught by `except Exception as e`
RecvNonObject(d) ==
    /\ e_bound
    /\ rxbuf = << >>
    /\ servo' = stop_all_servos(servo)
    /\ emergency_stop' = TRUE
    /\ e_bound' = FALSE
    /\ since_heartbeat' = Sat(since_heartbeat + d + EXCEPTION_SLEEP_MS)
    /\ since_datagram' = EXCEPTION_SLEEP_MS
    /\ since_hb_frame' = Sat(since_hb_frame + d + EXCEPTION_SLEEP_MS)
    /\ gap_open' = (gap_open \/ GapNow(d))
    /\ rx' = Rx("attributeerror", EmptyFrame)
    /\ UNCHANGED <<wave_active, jaw_open, rxbuf>>
    /\ PuppetOnly
    /\ UNCHANGED link_vars

\* ------------------------------------------------------------------------
\* The controller: Endocode/controllercode.py
\* ------------------------------------------------------------------------
JOY_CENTER == 2048
JOY_DEADZONE == 50
ADC_MAX == 4095
UNLOCK_WINDOW_MS == 2000
UNLOCK_PRESSES == 3
HEARTBEAT_PERIOD_MS == 1500
EMERGENCY_SLEEP_MS == 500
UNLOCK_SLEEP_MS == 300
LOCKED_SLEEP_MS == 100
LOOP_SLEEP_MS == 50
TOGGLE_MIN_MS == 50
TOGGLE_MAX_MS == 1000

\* A raw joystick sample just outside the dead zone.
RawOffCentre == 2098
\* What the three ADCs (joy1 x, joy1 y, joy2 x) read in one iteration.
JoySamples ==
    { [x1 |-> JOY_CENTER, y1 |-> JOY_CENTER, x2 |-> JOY_CENTER],
      [x1 |-> ADC_MAX, y1 |-> 0, x2 |-> RawOffCentre] }
\* The outcome of the first, second and third send_message call of an
\* iteration (no iteration makes more than three): the link is up for the
\* whole iteration, or down for the whole iteration.
SendOutcomes ==
    { [i \in {1, 2, 3} |-> TRUE], [i \in {1, 2, 3} |-> FALSE] }

Abs(x) == IF x < 0 THEN 0 - x ELSE x

\* faulty variant: a dead zone that includes the raw values 50 off centre
read_joy_InclusiveDeadzone(raw_value) ==
    IF Abs(raw_value - JOY_CENTER) <= JOY_DEADZONE
    THEN NEUTRAL
    ELSE Max2(0, Min2(180, (raw_value * 180) \div ADC_MAX))

\* read_joy, lines 79-96
read_joy(raw_value) ==
    IF Abs(raw_value - JOY_CENTER) < JOY_DEADZONE
    THEN NEUTRAL
    ELSE Max2(0, Min2(180, (raw_value * 180) \div ADC_MAX))

\* the messages the main loop builds
EmergencyFrame == [k \in {"emergency_stop"} |-> TRUE]
UnlockFrame == [k \in {"unlock"} |-> TRUE]
\* faulty variant: the heartbeat also carries a stick position
HeartbeatFrame_WithPose == [k \in {"heartbeat"} |-> TRUE] @@ [k \in {"eye_h"} |-> NEUTRAL]
HeartbeatFrame == [k \in {"heartbeat"} |-> TRUE]
\* faulty variant: the unlock flag travels in the controls dictionary, as in
\* read_controls of backup/transmitter.py
ControlFrame_WithUnlock(eye_h, eye_v, torso_rot, blink_trigger, wave, jaw) ==
    [k \in PosFields \cup AnimFields \cup {"unlock"} |->
        CASE k = "eye_h" -> eye_h
          [] k = "eye_v" -> eye_v
          [] k = "neck_lr" -> eye_h
          [] k = "neck_ud" -> eye_v
          [] k = "torso_rot" -> torso_rot
          [] k = "eye_blink" -> blink_trigger
          [] k = "wave_active" -> wave
          [] k = "jaw_open" -> jaw
          [] k = "unlock" -> blink_trigger]

\* lines 281-290: the controls dictionary
ControlFrame(eye_h, eye_v, torso_rot, blink_trigger, wave, jaw) ==
    [k \in PosFields \cup AnimFields |->
        CASE k = "eye_h" -> eye_h
          [] k = "eye_v" -> eye_v
          [] k = "neck_lr" -> eye_h
          [] k = "neck_ud" -> eye_v
          [] k = "torso_rot" -> torso_rot
          [] k = "eye_blink" -> blink_trigger
          [] k = "wave_active" -> wave
          [] k = "jaw_open" -> jaw]

\* one send_message call: the message and what the call returned
Call(message, ok) == [frame |-> message, ok |-> ok]

\* check_emergency_stop, lines 156-158
check_emergency_stop(b1, b2) == b1 /\ b2

\* check_unlock_combo, lines 160-171, on the list of ages: the list it
\* leaves behind and the value it returns
Recent(combo) == SelectSeq(combo, LAMBDA age : age < UNLOCK_WINDOW_MS)
ComboAfterPoll(combo, b1) ==
    IF b1 THEN Recent(Append(combo, 0)) ELSE combo
ComboComplete(combo, b1) ==
    b1 /\ Len(ComboAfterPoll(combo, b1)) >= UNLOCK_PRESSES
\* faulty variant: a complete combo is reported but the list is not cleared
check_unlock_combo_KeepsHistory(combo, b1) ==
    [combo |-> ComboAfterPoll(combo, b1),
     hit |-> ComboComplete(combo, b1)]
check_unlock_combo(combo, b1) ==
    [combo |-> IF ComboComplete(combo, b1) THEN << >> ELSE ComboAfterPoll(combo, b1),
     hit |-> ComboComplete(combo, b1)]

\* elapsed times after a sleep of dt ms
Older(combo, dt) ==
    [i \in 1 .. Len(combo) |-> Min2(combo[i] + dt, UNLOCK_WINDOW_MS)]
\* joy2_btn_press_time is read only on a release, which follows the press
\* that wrote it: while the button was last seen released its value is never
\* used and is kept at the saturated value
PressOlder(t, dt, held) ==
    IF held THEN Min2(t + dt, TOGGLE_MAX_MS + 1) ELSE TOGGLE_MAX_MS + 1

\* faulty variant: a press held for exactly 1000 ms is refused
ValidPress_ExclusiveMax(press_duration) ==
    TOGGLE_MIN_MS <= press_duration /\ press_duration < TOGGLE_MAX_MS

\* line 272: a valid press lasts between 50 ms and 1 s
ValidPress(press_duration) ==
    TOGGLE_MIN_MS <= press_duration /\ press_duration <= TOGGLE_MAX_MS

\* save_state, lines 126-139: the content written to state.json (the write
\* itself is taken to succeed)
save_state(wave, jaw) == [wave_active |-> wave, jaw_open |-> jaw]

\* line 206
InitialUnlocked_Locked ==
    FALSE
InitialUnlocked ==
    TRUE

\* lines 170-210: the state before the first iteration, with the defaults
\* load_state returns when state.json is absent
CtlInit ==
    /\ unlocked = InitialUnlocked
    /\ unlock_combo = << >>
    /\ heartbeat_elapsed = 0
    /\ last_blink_state = FALSE
    /\ last_joy2_btn_state = FALSE
    /\ joy2_press_elapsed = TOGGLE_MAX_MS + 1
    /\ ctl_wave_active = FALSE
    /\ ctl_jaw_open = FALSE
    /\ state_json = [wave_active |-> FALSE, jaw_open |-> FALSE]
    /\ sent = << >>
    /\ tick = [branch |-> "boot", b1 |-> FALSE, b2 |-> FALSE, first |-> FALSE]

\* ------------------------------------------------------------------------
\* One iteration of the controller's main loop (lines 224-306).  b1 and b2
\* are what is_pressed reads from the two buttons, joy the three ADC
\* samples, ok the outcomes of the iteration's send_message calls.  The
\* loop is not interrupted from the console.
\* ------------------------------------------------------------------------
\* lines 228-233: the emergency gesture, its message sent successfully
CtlEmergencyStep(b1, b2, joy, ok) ==
    /\ check_emergency_stop(b1, b2)
    /\ ok[1]
    /\ unlocked' = FALSE
    /\ sent' = << Call(EmergencyFrame, TRUE) >>
    /\ unlock_combo' = Older(unlock_combo, EMERGENCY_SLEEP_MS)
    /\ heartbeat_elapsed' = Sat(heartbeat_elapsed + EMERGENCY_SLEEP_MS)
    /\ joy2_press_elapsed' =
           PressOlder(joy2_press_elapsed, EMERGENCY_SLEEP_MS, last_joy2_btn_state)
    /\ UNCHANGED <<last_blink_state, last_joy2_btn_state, ctl_wave_active, ctl_jaw_open,
                   state_json>>
    /\ tick' = [branch |-> "emergency", b1 |-> b1, b2 |-> b2,
                first |-> (tick.branch = "boot")]
    /\ UNCHANGED <<probe, bench_vars>>

\* lines 228-229 and 236-250: the locked branch, entered when the emergency
\* gesture is absent or its message could not be sent
CtlLockedStep(b1, b2, joy, ok) ==
    /\ ~unlocked
    /\ ~(check_emergency_stop(b1, b2) /\ ok[1])
    /\ LET em == check_emergency_stop(b1, b2)
           n1 == IF em THEN 1 ELSE 0
           combo == check_unlock_combo(unlock_combo, b1)
           n2 == n1 + (IF combo.hit THEN 1 ELSE 0)
           unlock_ok == combo.hit /\ ok[n1 + 1]
           beat == heartbeat_elapsed > HEARTBEAT_PERIOD_MS
           dt == (IF combo.hit THEN UNLOCK_SLEEP_MS ELSE 0) + LOCKED_SLEEP_MS
       IN /\ unlocked' = unlock_ok
          /\ sent' = (IF em THEN << Call(EmergencyFrame, FALSE) >> ELSE << >>)
                     \o (IF combo.hit THEN << Call(UnlockFrame, ok[n1 + 1]) >> ELSE << >>)
                     \o (IF beat THEN << Call(HeartbeatFrame, ok[n2 + 1]) >> ELSE << >>)
          /\ unlock_combo' = Older(combo.combo, dt)
          /\ heartbeat_elapsed' = Sat((IF beat THEN 0 ELSE heartbeat_elapsed) + dt)
          /\ joy2_press_elapsed' = PressOlder(joy2_press_elapsed, dt, last_joy2_btn_state)
          /\ tick' = [branch |-> "locked", b1 |-> b1, b2 |-> b2,
                      first |-> (tick.branch = "boot")]
    /\ UNCHANGED <<last_blink_state, last_joy2_btn_state, ctl_wave_active, ctl_jaw_open,
                   state_json>>
    /\ UNCHANGED <<probe, bench_vars>>

\* lines 228-229 and 252-306: the unlocked branch
CtlUnlockedStep(b1, b2, joy, ok) ==
    /\ unlocked
    /\ ~(check_emergency_stop(b1, b2) /\ ok[1])
    /\ LET em == check_emergency_stop(b1, b2)
           n1 == IF em THEN 1 ELSE 0
           eye_h == read_joy(joy.x1)
           eye_v == read_joy(joy.y1)
           torso_rot == read_joy(joy.x2)
           blink_trigger == b1 /\ ~last_blink_state
           pressed == b2 /\ ~last_joy2_btn_state
           released == ~b2 /\ last_joy2_btn_state
           toggle == released /\ ValidPress(joy2_press_elapsed)
           wave == IF toggle THEN ~ctl_wave_active ELSE ctl_wave_active
           jaw == IF toggle THEN wave ELSE ctl_jaw_open
           beat == heartbeat_elapsed > HEARTBEAT_PERIOD_MS
       IN /\ last_blink_state' = b1
          /\ last_joy2_btn_state' = b2
          /\ ctl_wave_active' = wave
          /\ ctl_jaw_open' = jaw
          /\ state_json' = IF toggle THEN save_state(wave, jaw) ELSE state_json
          /\ sent' = (IF em THEN << Call(EmergencyFrame, FALSE) >> ELSE << >>)
                     \o << Call(ControlFrame(eye_h, eye_v, torso_rot,
                                             blink_trigger, wave, jaw), ok[n1 + 1]) >>
                     \o (IF beat THEN << Call(HeartbeatFrame, ok[n1 + 2]) >> ELSE << >>)
          /\ heartbeat_elapsed' = Sat((IF beat THEN 0 ELSE heartbeat_elapsed) + LOOP_SLEEP_MS)
          /\ joy2_press_elapsed' =
                 PressOlder(IF pressed THEN 0 ELSE joy2_press_elapsed, LOOP_SLEEP_MS, b2)
    /\ unlock_combo' = Older(unlock_combo, LOOP_SLEEP_MS)
    /\ tick' = [branch |-> "unlocked", b1 |-> b1, b2 |-> b2,
                first |-> (tick.branch = "boot")]
    /\ UNCHANGED unlocked
    /\ UNCHANGED <<probe, bench_vars>>

\* the controller on its own: nothing else moves while it runs an iteration
CtlOnly ==
    /\ UNCHANGED puppet_vars
    /\ UNCHANGED link_vars

CtlEmergency(b1, b2, joy, ok) ==
    /\ CtlEmergencyStep(b1, b2, joy, ok)
    /\ CtlOnly

CtlLocked(b1, b2, joy, ok) ==
    /\ CtlLockedStep(b1, b2, joy, ok)
    /\ CtlOnly

CtlUnlocked(b1, b2, joy, ok) ==
    /\ CtlUnlockedStep(b1, b2, joy, ok)
    /\ CtlOnly

\* ------------------------------------------------------------------------
\* The controller and the puppet on one radio link.  send_message ignores
\* what e.send returns, so the controller does not notice a lost datagram.
\* The messages of an iteration leave when it starts; those the link keeps
\* are in the puppet's receive buffer before the controller's sleep is over,
\* and the puppet, which was blocked in e.recv(), handles them while the
\* controller sleeps.
\* ------------------------------------------------------------------------
\* the last iteration called send_message with a frame of this class
Emitted(class) ==
    \E i \in 1 .. Len(sent) : FrameClass(sent[i].frame) = class
\* how long the last iteration took: the sleep that ended it
TickDuration ==
    CASE tick.branch = "emergency" -> EMERGENCY_SLEEP_MS
      [] tick.branch = "locked" ->
            (IF Emitted("unlock") THEN UNLOCK_SLEEP_MS ELSE 0) + LOCKED_SLEEP_MS
      [] tick.branch = "unlocked" -> LOOP_SLEEP_MS
      [] OTHER -> 0

\* every send_message call of the iteration succeeds
AllSent == [i \in {1, 2, 3} |-> TRUE]
\* which of the (at most two) datagrams of an iteration the link keeps:
\* all of them, or none
AllKept == [i \in {1, 2} |-> TRUE]
AllLost == [i \in {1, 2} |-> FALSE]
KeepMasks == { AllKept, AllLost }

\* the frames of the send_message calls that the link delivers, in order
Delivered(calls, keep) ==
    LET idx == SelectSeq([i \in 1 .. Len(calls) |-> i],
                         LAMBDA i : calls[i].ok /\ keep[i])
    IN [j \in 1 .. Len(idx) |-> calls[idx[j]].frame]

\* the last safety message among the calls, or prev when there is none
SafetyAfter(calls, prev) ==
    IF \E i \in 1 .. Len(calls) : calls[i].ok /\ Has(calls[i].frame, "unlock")
    THEN "unlock"
    ELSE IF \E i \in 1 .. Len(calls) : calls[i].ok /\ Has(calls[i].frame, "emergency_stop")
    THEN "emergency_stop"
    ELSE prev

\* the link during one iteration of the controller: the puppet has handled
\* what it received before, a receive timeout that is due has been taken;
\* of the datagrams sent the link keeps those of the mask, and with dup it
\* holds back a second copy of a delivered unlock datagram
OnAir(keep, dup) ==
    /\ rxbuf = << >>
    /\ idle < RecvTimeout + IDLE_SLEEP_MS
    /\ rxbuf' = Delivered(sent', keep)
    /\ idle' = idle + TickDuration'
    /\ stale' = (stale \/ (dup /\ \E i \in 1 .. Len(rxbuf') : Has(rxbuf'[i], "unlock")))
    /\ latest_safety' = SafetyAfter(sent', latest_safety)
    /\ UNCHANGED <<servo, emergency_stop, wave_active, jaw_open, since_heartbeat,
                   e_bound, rx, since_datagram, since_hb_frame, gap_open, was_waving>>

LinkEmergency(b1, b2, joy, keep, dup) ==
    /\ CtlEmergencyStep(b1, b2, joy, AllSent)
    /\ OnAir(keep, dup)

LinkLocked(b1, b2, joy, keep, dup) ==
    /\ CtlLockedStep(b1, b2, joy, AllSent)
    /\ OnAir(keep, dup)

LinkUnlocked(b1, b2, joy, keep, dup) ==
    /\ CtlUnlockedStep(b1, b2, joy, AllSent)
    /\ OnAir(keep, dup)

\* e.recv() hands over the oldest datagram received: the first of an
\* iteration's datagrams after the puppet was blocked for all of `idle` but
\* the controller's current sleep, the others at once
LinkRecv ==
    /\ rxbuf # << >>
    /\ HandleFrame(Max2(idle - TickDuration, 0), Head(rxbuf))
    /\ rxbuf' = Tail(rxbuf)
    /\ idle' = Min2(idle, TickDuration)
               - (IF Dispatch(Head(rxbuf), emergency_stop) = "data"
                  THEN DataDuration(Head(rxbuf)) ELSE 0)
    /\ UNCHANGED <<stale, latest_safety>>

\* e.recv() times out before any datagram has come
LinkTimeout ==
    /\ idle >= RecvTimeout + IDLE_SLEEP_MS
    /\ RecvNothingStep
    /\ idle' = idle - (RecvTimeout + IDLE_SLEEP_MS)
    /\ UNCHANGED <<stale, latest_safety>>

\* the copy of an unlock datagram that the link held back arrives
LinkStale ==
    /\ stale
    /\ rxbuf = << >>
    /\ rxbuf' = << UnlockFrame >>
    /\ stale' = FALSE
    /\ UNCHANGED <<servo, emergency_stop, wave_active, jaw_open, since_heartbeat,
                   e_bound, rx, since_datagram, since_hb_frame, gap_open, was_waving>>
    /\ UNCHANGED <<idle, latest_safety>>
    /\ UNCHANGED <<ctl_vars, probe, bench_vars>>

\* ------------------------------------------------------------------------
\* set_servo_angle on its own: one call with a drawn channel and angle
\* ------------------------------------------------------------------------
\* How far outside [0,180] the drawn angles reach.
ProbeMargin == 60
ProbeAngles == (0 - ProbeMargin) .. (180 + ProbeMargin)
NoProbe == [channel |-> 0, angle |-> NEUTRAL, applied |-> TRUE]

ProbeSetAngle ==
    /\ ~probe.applied
    /\ servo' = set_servo_angle(servo, probe.channel, probe.angle)
    /\ probe' = [probe EXCEPT !.applied = TRUE]
    /\ UNCHANGED <<emergency_stop, wave_active, jaw_open, since_heartbeat,
                   e_bound, rx, since_datagram, since_hb_frame, gap_open,
                   rxbuf, was_waving>>
    /\ UNCHANGED ctl_vars
    /\ UNCHANGED <<bench_vars, link_vars>>

\* ------------------------------------------------------------------------
\* read_joy on its own: one call with a drawn raw axis value
\* ------------------------------------------------------------------------
NoJoyProbe == [raw |-> JOY_CENTER, value |-> NEUTRAL, applied |-> TRUE]

\* controllercode.py lines 79-96, adc.read() returning joy_probe.raw
ProbeReadJoy ==
    /\ ~joy_probe.applied
    /\ joy_probe' = [joy_probe EXCEPT !.value = read_joy(joy_probe.raw),
                                      !.applied = TRUE]
    /\ UNCHANGED <<puppet_vars, ctl_vars, probe, boot_vars, jt_vars, link_vars>>

\* ------------------------------------------------------------------------
\* The puppet's start-up: init_pca9685 and the retry loop around it
\* (receivercode.py lines 51-84 and 154-167)
\* ------------------------------------------------------------------------
MODE1_SLEEP == 16
PRESCALE_50HZ == 121
MODE1_NORMAL == 0
MODE1_AUTOINC == 161
\* no value written yet
Unwritten == 0 - 1
\* How many calls of init_pca9685 the history counter tells apart.
MaxInitAttempts == 8

\* the I2C transfers of init_pca9685 in program order (lines 56, 60, 64, 67, 69)
InitSteps == << "probe", "sleep_mode", "prescale", "wake", "autoinc" >>
StepIndex(pc) == CHOOSE i \in 1 .. Len(InitSteps) : InitSteps[i] = pc
\* how an I2C transfer ends: done, OSError with errno 19, any other OSError
I2COutcomes == { "ok", "ENODEV", "EIO" }

\* lines 51-84: the I2C transfer at boot_pc ends with outcome.  An OSError
\* makes init_pca9685 return False, which takes the start-up code into (or
\* keeps it in) the `while True` retry loop of lines 163-167; the last
\* transfer done makes it return True, which ends that loop
InitStep(outcome) ==
    /\ boot_pc \in { InitSteps[i] : i \in 1 .. Len(InitSteps) }
    /\ LET i == StepIndex(boot_pc)
           done == outcome = "ok"
       IN /\ boot_pc' = IF ~done THEN "retry_sleep"
                        ELSE IF i = Len(InitSteps) THEN "loop"
                        ELSE InitSteps[i + 1]
          /\ pca_mode1' = IF ~done THEN pca_mode1
                          ELSE CASE boot_pc = "sleep_mode" -> MODE1_SLEEP
                                 [] boot_pc = "wake" -> MODE1_NORMAL
                                 [] boot_pc = "autoinc" -> MODE1_AUTOINC
                                 [] OTHER -> pca_mode1
          /\ pca_prescale' = IF done /\ boot_pc = "prescale"
                             THEN PRESCALE_50HZ ELSE pca_prescale
    /\ init_error' = outcome
    /\ UNCHANGED init_attempts
    /\ UNCHANGED <<puppet_vars, ctl_vars, probe, joy_probe, jt_vars, link_vars>>

\* lines 164-166: time.sleep(5), then init_pca9685 is called again
RetrySleep ==
    /\ boot_pc = "retry_sleep"
    /\ boot_pc' = "probe"
    /\ init_attempts' = Min2(init_attempts + 1, MaxInitAttempts)
    /\ UNCHANGED <<pca_mode1, pca_prescale, init_error>>
    /\ UNCHANGED <<puppet_vars, ctl_vars, probe, joy_probe, jt_vars, link_vars>>

\* line 158: the first call of init_pca9685 is about to be made
BootStart ==
    /\ boot_pc = "probe"
    /\ pca_mode1 = Unwritten
    /\ pca_prescale = Unwritten
    /\ init_attempts = 1
    /\ init_error = "ok"

\* the start-up code has initialised the driver at the first attempt
BootDone ==
    /\ boot_pc = "loop"
    /\ pca_mode1 = MODE1_AUTOINC
    /\ pca_prescale = PRESCALE_50HZ
    /\ init_attempts = 1
    /\ init_error = "ok"

\* ------------------------------------------------------------------------
\* The gesture test transmitter: tests/joysticktransmit.py
\* ------------------------------------------------------------------------
JT_UNLOCK_WINDOW_MS == 2000
JT_UNLOCK_PRESSES == 3
JOYBTN_DEBOUNCE_MS == 100
JT_HEARTBEAT_MS == 1500
JT_EMERGENCY_SLEEP_MS == 500
JT_LOOP_SLEEP_MS == 100

\* one send_message call of the loop: which message (the heartbeat of lines
\* 141-145, {"emergency_stop": True}, {"unlock": True}, or control_data) and
\* what the call returned.  The numbers the messages carry (heartbeat_id,
\* uptime, msg_id, the joystick readings and the simulated angles) and the
\* simulated blink/wave/jaw flags are not tracked.
JtCall(kind, ok) == [kind |-> kind, ok |-> ok]

\* the newest n entries of a list
Newest(list, n) ==
    IF Len(list) <= n THEN list ELSE SubSeq(list, Len(list) - n + 1, Len(list))

\* lines 121-126, the list comprehension of check_unlock_gesture
JtRecent(history) ==
    SelectSeq(history, LAMBDA age : age <= JT_UNLOCK_WINDOW_MS)
check_unlock_gesture(history) ==
    Len(JtRecent(history)) >= JT_UNLOCK_PRESSES

\* the list dt ms later.  Entries older than the window stay older for ever
\* and only the newest three of the others decide check_unlock_gesture, so
\* only those are kept.
JtOlder(history, dt) ==
    Newest(JtRecent([i \in 1 .. Len(history) |-> history[i] + dt]),
           JT_UNLOCK_PRESSES)

\* lines 93-133: the state before the first iteration
JtInit ==
    /\ emergency_sent = FALSE
    /\ unlock_sent = FALSE
    /\ joy1_btn_history = << >>
    /\ last_joy1_btn = FALSE
    /\ joy1_btn_elapsed = JOYBTN_DEBOUNCE_MS + 1
    /\ jt_heartbeat_elapsed = 0
    /\ edges_after_stop = 0
    /\ jt_sent = << >>
    /\ jt_tick = [gesture |-> FALSE, boot |-> TRUE]

\* lines 134-225: one iteration of the loop.  b1 and b2 are the buttons as
\* check_emergency_gesture reads them, b1_later is button 1 as line 164 reads
\* it (500 ms later when the emergency branch has slept in between), link
\* tells whether the send_message calls of the iteration succeed.
JtLoop(b1, b2, b1_later, link) ==
    LET beat == jt_heartbeat_elapsed > JT_HEARTBEAT_MS
        gesture == ~emergency_sent /\ b1 /\ b2
        stopped == emergency_sent \/ (gesture /\ link)
        edge == ~last_joy1_btn /\ b1_later
        recorded == edge /\ joy1_btn_elapsed > JOYBTN_DEBOUNCE_MS
        history == IF recorded THEN joy1_btn_history \o << 0 >> ELSE joy1_btn_history
        unlock == stopped /\ ~unlock_sent /\ check_unlock_gesture(history)
        dt == (IF gesture THEN JT_EMERGENCY_SLEEP_MS ELSE 0) + JT_LOOP_SLEEP_MS
    IN /\ gesture \/ b1_later = b1
       /\ emergency_sent' = stopped
       /\ unlock_sent' = (unlock_sent \/ (unlock /\ link))
       /\ joy1_btn_history' = IF unlock THEN << >> ELSE JtOlder(history, dt)
       /\ last_joy1_btn' = b1_later
       /\ joy1_btn_elapsed' =
              Min2((IF recorded THEN 0 ELSE joy1_btn_elapsed) + dt, JOYBTN_DEBOUNCE_MS + 1)
       /\ jt_heartbeat_elapsed' =
              Min2((IF beat THEN 0 ELSE jt_heartbeat_elapsed) + dt, JT_HEARTBEAT_MS + 1)
       /\ edges_after_stop' =
              IF ~emergency_sent THEN 0
              ELSE Min2(edges_after_stop + (IF recorded THEN 1 ELSE 0), JT_UNLOCK_PRESSES)
       /\ jt_sent' = (IF beat THEN << JtCall("heartbeat", link) >> ELSE << >>)
                     \o (IF gesture THEN << JtCall("emergency_stop", link) >> ELSE << >>)
                     \o (IF unlock THEN << JtCall("unlock", link) >> ELSE << >>)
                     \o << JtCall("control_data", link) >>
       /\ jt_tick' = [gesture |-> (b1 /\ b2), boot |-> FALSE]
       /\ UNCHANGED <<puppet_vars, ctl_vars, probe, joy_probe, boot_vars, link_vars>>

\* no datagram is under way and no safety message has been sent
LinkInit ==
    /\ idle = 0
    /\ stale = FALSE
    /\ latest_safety = "none"

\* nothing outside the loops is being exercised
BenchInit ==
    /\ joy_probe = NoJoyProbe
    /\ BootDone
    /\ JtInit
    /\ LinkInit

\* ------------------------------------------------------------------------
\* Specifications
\* ------------------------------------------------------------------------
Init ==
    /\ PuppetInit
    /\ CtlInit
    /\ probe = NoProbe
    /\ BenchInit

\* the puppet loop
Next ==
    \/ RecvNothing
    \/ \E d \in RecvWaits : RecvGarbage(d)
    \/ \E d \in RecvWaits, f \in Frames : RecvFrame(d, f)
    \/ RecvOSError
    \/ RecvNameError

Spec == Init /\ [][Next]_vars

\* the puppet loop with a transport that buffers what arrives while a
\* handler is asleep in an animation
AnimFrames ==
    { [k \in {"eye_blink"} |-> TRUE], [k \in {"wave_active"} |-> TRUE],
      FullData(TRUE), FullData(FALSE), FrameA,
      HeartbeatFrame, EmergencyFrame, UnlockFrame }
BufferedFrames ==
    { [k \in {"eye_blink"} |-> TRUE], HeartbeatFrame, EmergencyFrame }
NextAnim ==
    \/ RecvNothing
    \/ \E d \in RecvWaits, f \in AnimFrames : RecvFrame(d, f)
    \/ \E d \in RecvWaits, f \in AnimFrames, g \in BufferedFrames :
           RecvDuringAnimation(d, f, g)
    \/ RecvBuffered

SpecAnim == Init /\ [][NextAnim]_vars

\* set_servo_angle applied once to each drawn input
InitClamp ==
    /\ PuppetInit
    /\ CtlInit
    /\ probe \in [channel : Channels, angle : ProbeAngles, applied : {FALSE}]
    /\ BenchInit
NextClamp == ProbeSetAngle

SpecClamp == InitClamp /\ [][NextClamp]_vars

\* read_joy applied once to each value a 12-bit ADC can return
InitJoy ==
    /\ PuppetInit
    /\ CtlInit
    /\ probe = NoProbe
    /\ joy_probe \in [raw : 0 .. ADC_MAX, value : {NEUTRAL}, applied : {FALSE}]
    /\ BootDone
    /\ JtInit
    /\ LinkInit
NextJoy == ProbeReadJoy

SpecJoy == InitJoy /\ [][NextJoy]_vars

\* the controller loop
\* the operator works button 1 alone (blink, unlock presses) or both
\* buttons together (the emergency gesture)
GestureButtons ==
    { [b1 |-> FALSE, b2 |-> FALSE], [b1 |-> TRUE, b2 |-> FALSE],
      [b1 |-> TRUE, b2 |-> TRUE] }
NextCtl ==
    \/ \E b \in GestureButtons, joy \in JoySamples, ok \in SendOutcomes :
           CtlEmergency(b.b1, b.b2, joy, ok)
    \/ \E b \in GestureButtons, joy \in JoySamples, ok \in SendOutcomes :
           CtlLocked(b.b1, b.b2, joy, ok)
    \/ \E b \in GestureButtons, joy \in JoySamples, ok \in SendOutcomes :
           CtlUnlocked(b.b1, b.b2, joy, ok)

SpecCtl == Init /\ [][NextCtl]_vars

\* the controller loop with an operator who works button 2 alone (the
\* wave/jaw toggle) or both buttons together
ToggleButtons ==
    { [b1 |-> FALSE, b2 |-> FALSE], [b1 |-> FALSE, b2 |-> TRUE],
      [b1 |-> TRUE, b2 |-> TRUE] }
NextToggle ==
    \/ \E b \in ToggleButtons, joy \in JoySamples, ok \in SendOutcomes :
           CtlEmergency(b.b1, b.b2, joy, ok)
    \/ \E b \in ToggleButtons, joy \in JoySamples, ok \in SendOutcomes :
           CtlLocked(b.b1, b.b2, joy, ok)
    \/ \E b \in ToggleButtons, joy \in JoySamples, ok \in SendOutcomes :
           CtlUnlocked(b.b1, b.b2, joy, ok)

SpecToggle == Init /\ [][NextToggle]_vars

\* the puppet's start-up code.  It is the only thread of the program, so it
\* keeps taking steps for as long as it has one to take
InitBoot ==
    /\ PuppetInit
    /\ CtlInit
    /\ probe = NoProbe
    /\ joy_probe = NoJoyProbe
    /\ BootStart
    /\ JtInit
    /\ LinkInit
NextBoot ==
    \/ \E outcome \in I2COutcomes : InitStep(outcome)
    \/ RetrySleep

SpecBoot == InitBoot /\ [][NextBoot]_vars /\ WF_vars(NextBoot)

\* the loop of the gesture test transmitter
NextJt ==
    \E b \in GestureButtons, b1_later \in BOOLEAN, link \in BOOLEAN :
        JtLoop(b.b1, b.b2, b1_later, link)

SpecJt == Init /\ [][NextJt]_vars

\* controller and puppet over a link that may lose datagrams.  The operator
\* holds a stick off centre, makes the emergency gesture when he likes, and
\* after it leaves the buttons alone.  The link delivers the data and
\* heartbeat frames of the unlocked controller and may lose the
\* emergency_stop datagram and any heartbeat of the locked controller.  Both
\* programs keep running.
HeldStick == [x1 |-> ADC_MAX, y1 |-> 0, x2 |-> RawOffCentre]
LossEmergency(keep) ==
    /\ unlocked
    /\ LinkEmergency(TRUE, TRUE, HeldStick, keep, FALSE)
LossLocked(keep) == LinkLocked(FALSE, FALSE, HeldStick, keep, FALSE)
LossUnlocked == LinkUnlocked(FALSE, FALSE, HeldStick, AllKept, FALSE)
NextLoss ==
    \/ \E keep \in KeepMasks : LossEmergency(keep)
    \/ \E keep \in KeepMasks : LossLocked(keep)
    \/ LossUnlocked
    \/ LinkRecv
    \/ LinkTimeout

SpecLoss == Init /\ [][NextLoss]_vars /\ WF_vars(NextLoss)

\* controller and puppet over a link that loses nothing but may deliver a
\* second copy of an unlock datagram at any later time.  The operator makes
\* the emergency gesture when unlocked and works button 1 when locked.
DupEmergency ==
    /\ unlocked
    /\ LinkEmergency(TRUE, TRUE, HeldStick, AllKept, FALSE)
DupLocked(b1, dup) == LinkLocked(b1, FALSE, HeldStick, AllKept, dup)
DupUnlocked == LinkUnlocked(FALSE, FALSE, HeldStick, AllKept, FALSE)
NextDup ==
    \/ DupEmergency
    \/ \E b1 \in BOOLEAN, dup \in BOOLEAN : DupLocked(b1, dup)
    \/ DupUnlocked
    \/ LinkRecv
    \/ LinkStale

SpecDup == Init /\ [][NextDup]_vars

\* controller and puppet through a link outage.  The operator never makes
\* the emergency gesture, so the controller stays unlocked.  While the
\* puppet is Active the operator leaves the buttons alone; the link delivers
\* the datagrams of an iteration or, from any iteration on, loses them, and
\* an outage that has begun (the datagrams of the previous iteration did
\* not arrive) lasts until the watchdog has locked the puppet.  Once the
\* puppet is Locked the link delivers everything and the operator clicks
\* button 1 without pause: pressed in one iteration, released in the next,
\* a press every 100 ms, three presses in well under 2 seconds, over and
\* over.
RecoverOutage ==
    /\ ~emergency_stop
    /\ LinkUnlocked(FALSE, FALSE, HeldStick, AllLost, FALSE)
RecoverActive ==
    /\ ~emergency_stop
    /\ idle <= LOOP_SLEEP_MS
    /\ LinkUnlocked(FALSE, FALSE, HeldStick, AllKept, FALSE)
RecoverClick ==
    /\ emergency_stop
    /\ LinkUnlocked(~tick.b1, FALSE, HeldStick, AllKept, FALSE)
NextRecover ==
    \/ RecoverOutage
    \/ RecoverActive
    \/ RecoverClick
    \/ LinkRecv
    \/ LinkTimeout

SpecRecover == Init /\ [][NextRecover]_vars /\ WF_vars(NextRecover)

\* the puppet loop with, besides everything of Next, datagrams that decode
\* but cannot be applied
BadValueFrames == { FrameA, FrameB, FullData(TRUE), FullData(FALSE) }
NextFault ==
    \/ RecvNothing
    \/ \E d \in RecvWaits : RecvGarbage(d)
    \/ \E d \in RecvWaits, f \in Frames : RecvFrame(d, f)
    \/ RecvOSError
    \/ RecvNameError
    \/ \E d \in RecvWaits, f \in BadValueFrames, bad \in PosFields : RecvBadValue(d, f, bad)
    \/ \E d \in RecvWaits : RecvNonObject(d)

SpecFault == Init /\ [][NextFault]_vars

\* ------------------------------------------------------------------------
\* Vocabulary of the properties
\* ------------------------------------------------------------------------
Locked == emergency_stop
AllNeutral == \A ch \in Channels : servo[ch].angle = NEUTRAL

HasPayload(f) == (DOMAIN f) \cap (PosFields \cup AnimFields) # {}

\* what the last iteration received
GotFrame(class) == rx.kind = "frame" /\ FrameClass(rx.frame) = class
GotPositionCommand ==
    GotFrame("data") /\ (DOMAIN rx.frame) \cap PosFields # {}

\* the channel each position field drives
FieldChannel(k) ==
    CASE k = "eye_h" -> 0
      [] k = "eye_v" -> 1
      [] k = "neck_lr" -> 3
      [] k = "neck_ud" -> 4
      [] k = "torso_rot" -> 6
Clamp0to180(v) == IF v < 0 THEN 0 ELSE IF v > 180 THEN 180 ELSE v

\* the watchdog branch locks the puppet in this step
WatchdogFires == rx'.kind = "none" /\ ~emergency_stop /\ emergency_stop'

\* ------------------------------------------------------------------------
\* C1. Once more than 4000 ms have passed without a decoded datagram the
\* puppet is Locked with all ten channels at 90 until an unlock frame is
\* processed: at the end of every iteration in which e.recv() timed out or
\* delivered a position command after such a gap, the puppet
\* is Locked and every channel is at 90.
\* ------------------------------------------------------------------------
C1_WatchdogLocksAfterGap ==
    (gap_open /\ (rx.kind = "none" \/ GotPositionCommand))
        => (Locked /\ AllNeutral)

\* ------------------------------------------------------------------------
\* C2. Lock precedence: while the puppet is Locked, an iteration that
\* processes a data frame carrying position or animation fields leaves every
\* channel (angle and PWM duty) as it was.
\* ------------------------------------------------------------------------
C2_LockPrecedence ==
    [][ (Locked /\ GotFrame("data")' /\ HasPayload(rx'.frame))
            => (servo' = servo /\ Locked') ]_vars
C2_Witness ==
    /\ Locked /\ GotFrame("data") /\ rx.frame = FullData(TRUE)

\* ------------------------------------------------------------------------
\* C3. Emergency stop: an iteration that processes a frame classified as
\* emergency_stop, from Active or from Locked, ends Locked with all ten
\* channels at 90; and a Locked puppet stays Locked through every iteration
\* that does not process an unlock frame.
\* ------------------------------------------------------------------------
C3_EmergencyStop ==
    [][ /\ GotFrame("emergency_stop")' => (Locked' /\ AllNeutral')
        /\ (Locked /\ ~GotFrame("unlock")') => Locked' ]_vars
C3_Witness ==
    /\ GotFrame("emergency_stop") /\ Locked /\ AllNeutral
    /\ jaw_open /\ HasPayload(rx.frame)

C6_WatchdogEveryIteration ==
    [][ since_heartbeat > HEARTBEAT_TIMEOUT => (Locked' /\ AllNeutral') ]_vars

\* ------------------------------------------------------------------------
\* C7. Locked is left only by processing a frame classified as unlock:
\* heartbeat frames, data frames, undecodable datagrams, receive errors and
\* timeouts never clear it, and processing an unlock frame does clear it.
\* ------------------------------------------------------------------------
C7_OnlyUnlockClearsLock ==
    [][ /\ (Locked /\ ~Locked') => GotFrame("unlock")'
        /\ GotFrame("unlock")' => ~Locked' ]_vars
\* a heartbeat has been processed after the watchdog locked the puppet, and
\* the puppet is still Locked
C7_Witness ==
    /\ GotFrame("heartbeat") /\ Locked /\ gap_open /\ since_heartbeat = 0

\* ------------------------------------------------------------------------
\* C8. A decoded frame is handled as exactly one class, chosen by the
\* priority heartbeat > emergency_stop > unlock > position/animation:
\* a heartbeat frame changes neither the lock nor any channel; a frame with
\* emergency_stop and unlock both set (and no heartbeat) ends Locked with
\* all channels at 90; an unlock frame moves no channel; and a frame with
\* any of the three set applies none of its position or animation fields.
\* ------------------------------------------------------------------------
C8_FramePriority ==
    [][ /\ GotFrame("heartbeat")' => (Locked' = Locked /\ servo' = servo)
        /\ GotFrame("emergency_stop")' => (Locked' /\ AllNeutral')
        /\ GotFrame("unlock")' => (~Locked' /\ servo' = servo)
        /\ (rx'.kind = "frame" /\ ~GotFrame("data")')
             => /\ wave_active' = wave_active
                /\ jaw_open' = jaw_open
                /\ \A ch \in Channels :
                     servo'[ch].angle \in {servo[ch].angle, NEUTRAL} ]_vars
C8_Witness ==
    /\ rx.kind = "frame"
    /\ Truthy(rx.frame, "emergency_stop") /\ Truthy(rx.frame, "unlock")
    /\ ~Truthy(rx.frame, "heartbeat") /\ HasPayload(rx.frame)
    /\ Locked /\ AllNeutral

\* ------------------------------------------------------------------------
\* C9. A datagram that fails to decode is dropped with the lock state, the
\* watchdog timer and all channels unchanged, and the loop keeps running:
\* the next iteration calls e.recv() again (it times out, or delivers the
\* next datagram), so later frames are still received.
\* ------------------------------------------------------------------------
C9_DecodeFailureDropped ==
    [][ /\ rx'.kind = "garbage"
             => (Locked' = Locked /\ servo' = servo
                 /\ since_heartbeat' >= since_heartbeat)
        /\ rx.kind = "garbage" => rx'.kind \in {"none", "garbage", "frame"} ]_vars

\* ------------------------------------------------------------------------
\* C10. When the puppet is Active, a data frame sets exactly the channels
\* whose fields are present (eye_h -> 0, eye_v -> 1, neck_lr -> 3,
\* neck_ud -> 4, torso_rot -> 6), each to the clamped value of its field,
\* and leaves the channel of every absent field at its previous angle.
\* ------------------------------------------------------------------------
C10_PartialFrame ==
    [][ (~Locked /\ GotFrame("data")')
            => \A k \in PosFields :
                 servo'[FieldChannel(k)].angle =
                    IF Has(rx'.frame, k) THEN Clamp0to180(rx'.frame[k])
                    ELSE servo[FieldChannel(k)].angle ]_vars
\* a frame carrying only eye_h was applied while channel 1 kept a
\* non-neutral angle commanded earlier
C10_Witness ==
    /\ ~Locked /\ GotFrame("data") /\ rx.frame = FrameA
    /\ servo[0].angle = 180 /\ servo[1].angle = 45 /\ servo[4].angle = 0

\* ------------------------------------------------------------------------
\* C11. Clamping idempotence: for every drawn angle, set_servo_angle(channel,
\* angle) writes the PWM value that set_servo_angle(channel, clamp(angle, 0,
\* 180)) writes; an angle already in [0,180] is commanded unchanged; and
\* the commanded angle of every channel is within [0,180].
\* ------------------------------------------------------------------------
C11_ClampIdempotent ==
    probe.applied =>
        /\ servo[probe.channel].duty =
               set_servo_angle(servo, probe.channel, Clamp0to180(probe.angle))[probe.channel].duty
        /\ probe.angle \in 0 .. 180 => servo[probe.channel].angle = probe.angle
        /\ \A ch \in Channels : servo[ch].angle \in 0 .. 180
C11_Witness ==
    /\ probe.applied
    /\ probe.channel = WAVE3
    /\ probe.angle = 180 + ProbeMargin
    /\ servo[WAVE3].angle = 180
    /\ servo[WAVE3].duty = ServoDuty(180)

\* ------------------------------------------------------------------------
\* Vocabulary of the controller properties
\* ------------------------------------------------------------------------
\* both buttons read pressed in the last iteration
GestureSeen == tick.b1 /\ tick.b2

\* ------------------------------------------------------------------------
\* C12. The locked controller emits {unlock:true} and clears its locked
\* state only when three distinct press edges (not-pressed to pressed) of
\* button 1 fall inside 2 seconds; one held press never unlocks.  Hence it
\* unlocks only in an iteration that sees the third press edge: button 1
\* reads pressed and read not pressed in the iteration before.
\* ------------------------------------------------------------------------
C12_UnlockOnPressEdges ==
    [][ (Emitted("unlock")' /\ ~unlocked /\ unlocked') => (tick'.b1 /\ ~tick.b1) ]_vars

\* ------------------------------------------------------------------------
\* C13. In every iteration in which both buttons read pressed the
\* controller emits {emergency_stop:true}, is locked when the iteration
\* ends and emits no data frame, also when the send fails; and two
\* consecutive iterations both emit an emergency_stop frame only if at
\* least 500 ms lie between them.
\* ------------------------------------------------------------------------
C13_EmergencyGesture ==
    [][ /\ GestureSeen' => (Emitted("emergency_stop")' /\ ~unlocked' /\ ~Emitted("data")')
        /\ (Emitted("emergency_stop") /\ Emitted("emergency_stop")')
              => TickDuration >= EMERGENCY_SLEEP_MS ]_vars

\* ------------------------------------------------------------------------
\* C14. The controller starts locked: the first iteration after startup,
\* before any unlock gesture, emits no data frame.
\* ------------------------------------------------------------------------
C14_StartsLocked ==
    tick.first => ~Emitted("data")

\* C14 as the code has it: the controller starts unlocked; while unlocked,
\* every iteration emits a data frame with all eight position and animation
\* fields and stays unlocked, except an iteration in which the emergency
\* gesture's frame is sent successfully, which is the only thing that locks it.
C14_StartsUnlocked ==
    [][ /\ tick.branch = "boot" => unlocked
        /\ (unlocked /\ tick'.branch # "emergency")
              => /\ unlocked'
                 /\ \E i \in 1 .. Len(sent') :
                        DOMAIN sent'[i].frame = PosFields \cup AnimFields
        /\ (unlocked /\ ~unlocked')
              => (GestureSeen' /\ sent' = << Call(EmergencyFrame, TRUE) >>) ]_vars
C14_Witness ==
    /\ tick.first
    /\ tick.branch = "unlocked"
    /\ unlocked
    /\ Len(sent) = 1
    /\ sent[1].ok
    /\ sent[1].frame["eye_h"] = 180
    /\ sent[1].frame["eye_blink"] = TRUE

\* ------------------------------------------------------------------------
\* C15. Heartbeats are unconditional: whatever the buttons read and
\* whether sends succeed, the time since the last heartbeat emission stays
\* below the puppet's 4000 ms watchdog timeout.
\* ------------------------------------------------------------------------
C15_HeartbeatGapBounded ==
    heartbeat_elapsed < HEARTBEAT_TIMEOUT

\* ------------------------------------------------------------------------
\* C16. Every data frame and every heartbeat frame the controller emits
\* carries a seq field in 0..65535.
\* ------------------------------------------------------------------------
C16_SeqField ==
    \A i \in 1 .. Len(sent) :
        FrameClass(sent[i].frame) \in {"data", "heartbeat"}
            => (Has(sent[i].frame, "seq") /\ sent[i].frame["seq"] \in 0 .. 65535)

\* ------------------------------------------------------------------------
\* C17. Resend on failure: when the send of a data frame fails, the next
\* frame put on the wire is identical to it; in particular a data frame
\* with eye_blink:true whose send failed is the first frame of the next
\* iteration (unless that iteration sees the emergency gesture).
\* ------------------------------------------------------------------------
C17_ResendOnFailure ==
    [][ \A i \in 1 .. Len(sent) :
            ( /\ FrameClass(sent[i].frame) = "data"
              /\ Truthy(sent[i].frame, "eye_blink")
              /\ ~sent[i].ok
              /\ ~GestureSeen' )
            => (sent' # << >> /\ sent'[1].frame = sent[i].frame) ]_vars

\* ------------------------------------------------------------------------
\* Vocabulary of the animation properties
\* ------------------------------------------------------------------------
WaveChannels == {WAVE1, WAVE2, WAVE3}
\* the last iteration ran perform_blink and no other animation
BlinkRan ==
    /\ GotFrame("data")
    /\ Truthy(rx.frame, "eye_blink")
    /\ since_datagram = BLINK_MS

\* ------------------------------------------------------------------------
\* C18. Blink non-reentrancy: a second eye_blink:true frame that arrives
\* while the 150 ms blink is in progress is a no-op and is not queued: when
\* the loop gets round to it, its handler moves no channel and spends no
\* time in a second blink.
\* ------------------------------------------------------------------------
C18_BlinkNotReentrant ==
    [][ ( /\ BlinkRan
          /\ rxbuf # << >>
          /\ ~Locked
          /\ FrameClass(Head(rxbuf)) = "data"
          /\ Truthy(Head(rxbuf), "eye_blink") )
        => (servo' = servo /\ since_datagram' = 0) ]_vars

\* ------------------------------------------------------------------------
\* C19. Wave teardown: whenever the received wave_active goes from true to
\* false, channels 7, 8 and 9 are at 90 once that frame has been processed.
\* ------------------------------------------------------------------------
C19_WaveTeardown ==
    [][ (wave_active /\ ~wave_active')
        => \A ch \in WaveChannels : servo'[ch].angle = NEUTRAL ]_vars
C19_Witness ==
    /\ was_waving
    /\ ~wave_active
    /\ ~Locked
    /\ GotFrame("data")
    /\ rx.frame = FullData(FALSE)
    /\ \A ch \in WaveChannels : servo[ch].angle = NEUTRAL
    /\ servo[JAW].angle = NEUTRAL

\* ------------------------------------------------------------------------
\* C20. Animations never stall the receive loop: when an iteration that
\* handled a frame is over and the loop is back at e.recv() and the
\* watchdog check, less than one animation interval has passed since the
\* datagram was received, and no datagram that arrived while the handler
\* ran is left waiting.
\* ------------------------------------------------------------------------
C20_AnimationsDoNotStall ==
    /\ rx.kind = "frame" => since_datagram < BLINK_MS
    /\ rxbuf = << >>

\* C21: a lock cancels a running animation.  An emergency_stop datagram that
\* arrives while a blink or wave handler is asleep has locked the puppet, with
\* every channel at 90, by the time that loop iteration is over: no iteration
\* ends with the emergency_stop datagram still waiting in the receive buffer
\* and the puppet not Locked.
C21_LockCancelsAnimation ==
    (rxbuf # << >> /\ FrameClass(Head(rxbuf)) = "emergency_stop")
        => (Locked /\ AllNeutral)

C24_InitFailureHalts ==
    <>(boot_pc \in { "loop", "halted" })

\* C25: every frame the controller hands to send_message is of exactly one
\* class: {heartbeat: true} alone, {emergency_stop: true} alone,
\* {unlock: true} alone, or a data frame whose keys are all position or
\* animation fields.
C25_OneClassPerFrame ==
    \A i \in 1 .. Len(sent) :
        LET f == sent[i].frame
            Alone(k) == DOMAIN f = {k} /\ f[k] = TRUE
        IN \/ Alone("heartbeat")
           \/ Alone("emergency_stop")
           \/ Alone("unlock")
           \/ /\ DOMAIN f # {}
              /\ DOMAIN f \subseteq
                     {"eye_h", "eye_v", "neck_lr", "neck_ud", "torso_rot",
                      "eye_blink", "wave_active", "jaw_open"}
C25_Witness ==
    /\ Len(sent) = 3
    /\ DOMAIN sent[1].frame = {"emergency_stop"}
    /\ DOMAIN sent[2].frame = PosFields \cup AnimFields
    /\ DOMAIN sent[3].frame = {"heartbeat"}

\* C26: the wave is level-triggered.  Whenever the loop is back at e.recv()
\* with wave_active true and the puppet Active, channels 7 and 8 hold pose A
\* (60,120) or pose B (120,60) of the running alternation and channel 9 is
\* at 90.
C26_WaveKeepsAlternating ==
    (wave_active /\ ~Locked) =>
        /\ \/ servo[WAVE1].angle = 60 /\ servo[WAVE2].angle = 120
           \/ servo[WAVE1].angle = 120 /\ servo[WAVE2].angle = 60
        /\ servo[WAVE3].angle = 90

\* ------------------------------------------------------------------------
\* Vocabulary of the properties of the gesture test transmitter
\* ------------------------------------------------------------------------
\* the last iteration called send_message with a message of this kind
JtEmitted(kind) == \E i \in 1 .. Len(jt_sent) : jt_sent[i].kind = kind

\* C27: only button-1 press edges recorded while the test transmitter is
\* locked count toward the unlock gesture.  An iteration that emits the
\* unlock frame does not also emit the emergency_stop frame, and three press
\* edges have been recorded in the iterations after the one that sent the
\* emergency_stop.
C27_UnlockNeedsLockedEdges ==
    JtEmitted("unlock") =>
        /\ ~JtEmitted("emergency_stop")
        /\ edges_after_stop >= 3

\* C28: the emergency gesture is suppressed only for the cooldown.  After an
\* emergency stop and an unlock have been sent, an iteration that reads both
\* buttons pressed emits the emergency_stop frame again.
C28_EmergencyRepeats ==
    [][ (unlock_sent /\ jt_tick'.gesture) => JtEmitted("emergency_stop")' ]_vars

\* C29: safety under packet loss.  Whenever the controller is locked, the
\* puppet is, or later becomes, Locked with every channel at 90, also when
\* the emergency_stop datagram was lost and the gesture is not repeated: the
\* puppet does not stay Active while the controller is locked.
C29_LockReachesPuppet ==
    (~unlocked) ~> (Locked /\ AllNeutral)

\* C30: safety under duplication and reordering.  A copy of an unlock
\* datagram sent before the controller's most recent emergency_stop does not
\* return the puppet to Active: once the puppet has handled everything it
\* received, it is Locked whenever the last safety message the controller
\* sent is the emergency_stop.
C30_StaleUnlockIgnored ==
    (latest_safety = "emergency_stop" /\ rxbuf = << >>) => Locked

\* C31: recovery from lock-state disagreement.  Whenever the puppet is
\* Locked while the controller considers itself unlocked, and datagrams are
\* delivered again, the operator's triple-press of button 1 alone leads to
\* the puppet being Active again; no emergency gesture is needed first.
C31_TriplePressRecovers ==
    (Locked /\ unlocked) ~> ~Locked

\* the calls carry safety or heartbeat frames only, no position or
\* animation field
SafetyOnly(calls) ==
    \A i \in 1 .. Len(calls) :
        /\ ~HasPayload(calls[i].frame)
        /\ \/ DOMAIN calls[i].frame = {"heartbeat"}
           \/ DOMAIN calls[i].frame = {"unlock"}
           \/ DOMAIN calls[i].frame = {"emergency_stop"}

\* C32: while the controller is locked it emits only heartbeat, unlock and
\* emergency_stop frames.  An iteration that starts or ends with
\* unlocked = False (every iteration from the one whose emergency_stop send
\* succeeds to the one whose unlock send succeeds) makes no send_message
\* call with a position or animation field.
C32_LockedSendsNoData ==
    [][ (~unlocked \/ ~unlocked') => SafetyOnly(sent') ]_vars

\* a locked iteration that made three calls, none of them with data: the
\* emergency gesture and the unlock combo, both failing, and a heartbeat
C32_Witness ==
    /\ ~unlocked
    /\ tick.branch = "locked"
    /\ Len(sent) = 3
    /\ sent[1].frame = EmergencyFrame
    /\ sent[2].frame = UnlockFrame
    /\ ~sent[2].ok
    /\ sent[3].frame = HeartbeatFrame

\* C33: at every loop-iteration boundary of the puppet, Locked implies that
\* all ten commanded channel angles are 90, whatever frames, decode
\* failures, exceptions and timeouts led to the lock.
C33_LockedIsNeutral ==
    Locked => AllNeutral

\* the lock came from the exception handler, in an iteration that had
\* already applied eye_h of the frame when a later field raised
C33_Witness ==
    /\ Locked
    /\ AllNeutral
    /\ rx.kind = "typeerror"
    /\ Has(rx.frame, "eye_h")
    /\ rx.frame["eye_h"] # NEUTRAL

\* the send_message calls of the iteration just made that carried {unlock: True}
UnlockCalls(calls) == { i \in 1 .. Len(calls) : calls[i].frame = UnlockFrame }

FaultSeen == rx.kind \in {"typeerror", "attributeerror"}

\* C35: fail-safe on unexpected frame content.  An iteration in which
\* applying a decoded frame raises an unexpected error ends with the puppet
\* Locked and all ten channels at 90, and the puppet keeps receiving: the
\* e.recv() call of the next iteration does not itself end in the exception
\* handler, so that a later unlock frame can be received.
C35_FailSafeOnBadFrame ==
    [][ /\ FaultSeen' => (Locked' /\ AllNeutral')
        /\ FaultSeen => rx'.kind # "nameerror" ]_vars

====
